---- MODULE Spec2Model ----
(***************************************************************************)
(* Model of package server (src/server/server.go): a wrapper around        *)
(* http.Server with graceful shutdown.  The state is the Server struct     *)
(* (origin, log, stopSignals, onceCloser), the os/signal registration made *)
(* by New/Wrap, and the position of every goroutine that is inside Start,  *)
(* Wait, Stop or Shutdown.                                                 *)
(*                                                                         *)
(* Each goroutine is a task with a program counter pc[t]:                  *)
(*   idle       not inside a call of the Server                            *)
(*   listen     Start, before origin.ListenAndServe()           (line 90)  *)
(*   serving    Start, blocked inside origin.ListenAndServe()   (line 90)  *)
(*   parked     Wait, blocked in <-s.stopSignals                (line 103) *)
(*   once_lock  Stop, onceCloser.Do found done unset and is     (line 108) *)
(*              about to take the mutex of the slow path                   *)
(*   f_close    Stop, holding the mutex, after signal.Stop and  (line 110) *)
(*              before close(s.stopSignals)                                *)
(*   sd_begin   Shutdown, after Stop, before origin.Shutdown    (line 119) *)
(*   sd_poll    Shutdown, inside origin.Shutdown(ctx)           (line 122) *)
(*   exited     the process has been terminated by a signal                *)
(* op[t] is the exported method the task is in; Stop's steps run with op   *)
(* "Stop", "Start" (failure path, line 93) or "Shutdown" (line 117).       *)
(*                                                                         *)
(* A step is one access to shared state together with the task-local work  *)
(* around it: the fast-path load of the once flag belongs to the step that *)
(* enters Stop, taking the mutex belongs to the step of signal.Stop, and   *)
(* the deferred store and unlock belong to the step of close.  A receiver  *)
(* that is handed a value, or woken by a close, returns in the same step.  *)
(*                                                                         *)
(* Interrupts that arrive while no channel is registered take the          *)
(* process's default disposition and are outside this model.  SIGTERM,     *)
(* for which New and Wrap register nothing, is delivered in OSSpec only.   *)
(***************************************************************************)
EXTENDS Integers, Sequences, FiniteSets, TLC

(* ---- bounds ---- *)
NTasks == 2          \* goroutines that call Wait, Stop and Shutdown
MaxCalls == 3        \* calls of Wait, Stop and Shutdown over the whole run
ClockStep == 10      \* seconds that pass in one step of the clock
MaxDollars == 2      \* leading "$" characters of a variable name

(* ---- program constants ---- *)
gracefulTimeout == 10   \* seconds; the deadline of Shutdown's context
StopSignalsCap == 1     \* make(chan os.Signal, 1)

Starter == 0                    \* the goroutine of "go srv.Start()"
Users == 1..NTasks              \* the goroutines that call Wait, Stop, Shutdown
Tasks == {Starter} \cup Users
NoTask == -1

VARIABLES
    pc,          \* pc[t]: position of task t
    op,          \* op[t]: exported method task t is executing
    stopSignals, \* the channel: closed flag, buffered count, queue of parked receivers
    notified,    \* TRUE while signal.Notify(stopSignals, os.Interrupt) is in force
    onceCloser,  \* sync.Once: done flag and the task holding its mutex
    origin,      \* http.Server: inShutdown, listener, busy (a request is in flight)
    hasLog,      \* s.log != nil
    log,         \* log[line]: number of times the line was written to s.log
    startRet,    \* how Start returned: "none", "closed" or "failed"
    lastWait,    \* the most recent Wait to return: what it received, whether it parked
    lastSd,      \* result of origin.Shutdown in the most recent Shutdown to return
    sdCalls,     \* Shutdown calls that have returned
    elapsed,     \* elapsed[t]: seconds since t's Shutdown context was created
    ncalls,      \* calls of Wait, Stop and Shutdown made so far
    fresh,       \* lowest-numbered user task that has made no call yet
    closedBy,    \* one entry per executed close(s.stopSignals): caller, receivers woken
    panics,      \* runtime panics raised so far
    environ,     \* the process environment: environ[name] is (value, ok) of os.LookupEnv
    envRet       \* the most recent call into package env: function, arguments, result

vars == <<pc, op, stopSignals, notified, onceCloser, origin, hasLog, log,
          startRet, lastWait, lastSd, sdCalls, elapsed, ncalls, fresh,
          closedBy, panics, environ, envRet>>

serverVars == <<pc, op, stopSignals, notified, onceCloser, origin, hasLog, log,
                startRet, lastWait, lastSd, sdCalls, elapsed, ncalls, fresh,
                closedBy, panics>>
envVars  == <<environ, envRet>>
chanVars == <<stopSignals, notified>>
sdVars   == <<lastSd, sdCalls, elapsed>>
callVars == <<ncalls, fresh>>

Lines == {"start", "error", "closed", "shutdown", "failed", "ok"}

(* s.logMessage: a no-op without a sink, otherwise one write per call. *)
logMessage(l, line) ==
    IF hasLog THEN [l EXCEPT ![line] = @ + 1] ELSE l

(* ------------------------------------------------------------------ *)
(* package env (src/env/env.go).  A variable name is a sequence of     *)
(* characters, a value is a string.                                    *)
(* ------------------------------------------------------------------ *)

Dollars(k) == [i \in 1..k |-> "$"]

(* The names the environment may hold, and the names a caller passes. *)
Names == {Dollars(k) \o <<"V">> : k \in 0..MaxDollars}
CallNames == Names \cup {<<>>, <<"$">>}

EnvValues == {"", "true", "false", "True", "some"}
Defaults == {"", "dflt"}

(* os.LookupEnv's pair (value, ok). *)
NotPresent == [value |-> "", ok |-> FALSE]
Entries == {NotPresent} \cup {[value |-> v, ok |-> TRUE] : v \in EnvValues}

NoCall == [fn |-> "none"]

(* strings.HasPrefix and strings.TrimPrefix. *)
HasPrefix(str, prefix) ==
    /\ Len(str) >= Len(prefix)
    /\ SubSeq(str, 1, Len(prefix)) = prefix

TrimPrefix(str, prefix) ==
    IF HasPrefix(str, prefix) THEN SubSeq(str, Len(prefix) + 1, Len(str)) ELSE str

(* os.LookupEnv and os.Getenv on the process environment. *)
LookupEnv(key) == IF key \in DOMAIN environ THEN environ[key] ELSE NotPresent

Getenv(key) == LookupEnv(key).value

(* Must written with os.Getenv: an empty value is taken for a missing *)
(* variable.                                                           *)
Must_ViaGetenv(variable) ==
    LET value == Getenv(TrimPrefix(variable, <<"$">>))
    IN  IF value = ""
        THEN [panicked |-> TRUE, value |-> ""]
        ELSE [panicked |-> FALSE, value |-> value]

(* Must (lines 15-22): the value, or a panic when the variable is not  *)
(* present.                                                            *)
Must(variable) ==
    LET entry == LookupEnv(TrimPrefix(variable, <<"$">>))
    IN  IF ~entry.ok
        THEN [panicked |-> TRUE, value |-> ""]
        ELSE [panicked |-> FALSE, value |-> entry.value]

(* MustBool (lines 26-36). *)
MustBool(variable) ==
    LET m == Must(variable)
    IN  IF m.panicked THEN [panicked |-> TRUE, value |-> FALSE]
        ELSE IF m.value = "true" THEN [panicked |-> FALSE, value |-> TRUE]
        ELSE IF m.value = "false" THEN [panicked |-> FALSE, value |-> FALSE]
        ELSE [panicked |-> TRUE, value |-> FALSE]

(* Get (lines 40-47). *)
Get(variable, defaultValue) ==
    LET value == Getenv(TrimPrefix(variable, <<"$">>))
    IN  [panicked |-> FALSE,
         value |-> IF value = "" THEN defaultValue ELSE value]

(* Bool written with strconv.ParseBool, which also reads "True" as    *)
(* true.                                                               *)
Bool_ParseBool(variable, defaultValue) ==
    LET value == Getenv(TrimPrefix(variable, <<"$">>))
    IN  [panicked |-> FALSE,
         value |-> IF value \in {"true", "True"} THEN TRUE
                   ELSE IF value = "false" THEN FALSE
                   ELSE defaultValue]

(* Bool (lines 52-63). *)
Bool(variable, defaultValue) ==
    LET value == Getenv(TrimPrefix(variable, <<"$">>))
    IN  [panicked |-> FALSE,
         value |-> IF value = "true" THEN TRUE
                   ELSE IF value = "false" THEN FALSE
                   ELSE defaultValue]

(* ------------------------------------------------------------------ *)
(* package server                                                      *)
(* ------------------------------------------------------------------ *)

(* New / Wrap: channel of capacity 1, registered for os.Interrupt,     *)
(* options applied (the log sink is present or absent).                *)
ServerInit ==
    /\ pc = [t \in Tasks |-> "idle"]
    /\ op = [t \in Tasks |-> "none"]
    /\ stopSignals = [closed |-> FALSE, qcount |-> 0, recvq |-> <<>>]
    /\ notified = TRUE
    /\ onceCloser = [done |-> FALSE, m |-> NoTask]
    /\ origin = [inShutdown |-> FALSE, listener |-> "none", busy |-> FALSE]
    /\ hasLog \in BOOLEAN
    /\ log = [l \in Lines |-> 0]
    /\ startRet = "none"
    /\ lastWait = [got |-> "none", parked |-> FALSE]
    /\ lastSd = "none"
    /\ sdCalls = 0
    /\ elapsed = [t \in Tasks |-> 0]
    /\ ncalls = 0
    /\ fresh = 1
    /\ closedBy = <<>>
    /\ panics = {}

(* A Server in a process with an empty environment that makes no call *)
(* into package env.                                                   *)
Init ==
    /\ ServerInit
    /\ environ = [n \in Names |-> NotPresent]
    /\ envRet = NoCall

(* A user task may call into the Server when it is not inside a call.  *)
(* Tasks that have not called yet are interchangeable, so the one with *)
(* the lowest number goes first.                                       *)
CanCall(t) ==
    /\ t \in Users
    /\ pc[t] = "idle"
    /\ ncalls < MaxCalls
    /\ t <= fresh

Called(t) ==
    /\ ncalls' = ncalls + 1
    /\ fresh' = IF t = fresh THEN fresh + 1 ELSE fresh

Range(s) == {s[i] : i \in 1..Len(s)}

(* The receivers in ts are released and their Wait calls return. *)
Release(f, ts, v) == [t \in Tasks |-> IF t \in ts THEN v ELSE f[t]]

(* ------------------------------------------------------------------ *)
(* Wait                                                                *)
(* ------------------------------------------------------------------ *)

(* Wait as a receive that never parks (a select with a default case):  *)
(* on an open, empty channel it returns with nothing received.         *)
Wait_NonBlocking(t) ==
    /\ CanCall(t)
    /\ Called(t)
    /\ stopSignals' = [stopSignals EXCEPT !.qcount = IF @ > 0 THEN @ - 1 ELSE @]
    /\ lastWait' = [got |-> IF stopSignals.qcount > 0 THEN "signal"
                            ELSE IF stopSignals.closed THEN "closed"
                            ELSE "nothing",
                    parked |-> FALSE]
    /\ UNCHANGED <<pc, op, notified, onceCloser, origin, hasLog, envVars, log, startRet,
                   sdVars, closedBy, panics>>

(* Wait as a receive that only a signal value can satisfy: it parks on *)
(* an empty channel whether or not the channel is closed.              *)
Wait_OnlySignals(t) ==
    /\ CanCall(t)
    /\ Called(t)
    /\ IF stopSignals.qcount > 0
       THEN /\ stopSignals' = [stopSignals EXCEPT !.qcount = @ - 1]
            /\ lastWait' = [got |-> "signal", parked |-> FALSE]
            /\ UNCHANGED <<pc, op>>
       ELSE /\ stopSignals' = [stopSignals EXCEPT !.recvq = Append(@, t)]
            /\ pc' = [pc EXCEPT ![t] = "parked"]
            /\ op' = [op EXCEPT ![t] = "Wait"]
            /\ UNCHANGED lastWait
    /\ UNCHANGED <<notified, onceCloser, origin, hasLog, envVars, log, startRet, sdVars,
                   closedBy, panics>>

(* <-s.stopSignals: take a buffered signal, or the zero value of a     *)
(* closed channel, or park.                                            *)
Wait(t) ==
    /\ CanCall(t)
    /\ Called(t)
    /\ IF stopSignals.qcount > 0
       THEN /\ stopSignals' = [stopSignals EXCEPT !.qcount = @ - 1]
            /\ lastWait' = [got |-> "signal", parked |-> FALSE]
            /\ UNCHANGED <<pc, op>>
       ELSE IF stopSignals.closed
       THEN /\ lastWait' = [got |-> "closed", parked |-> FALSE]
            /\ UNCHANGED <<pc, op, stopSignals>>
       ELSE /\ stopSignals' = [stopSignals EXCEPT !.recvq = Append(@, t)]
            /\ pc' = [pc EXCEPT ![t] = "parked"]
            /\ op' = [op EXCEPT ![t] = "Wait"]
            /\ UNCHANGED lastWait
    /\ UNCHANGED <<notified, onceCloser, origin, hasLog, envVars, log, startRet, sdVars,
                   closedBy, panics>>

(* Delivery of SIGINT to a channel made without a buffer               *)
(* (make(chan os.Signal)): the value is dropped unless a receiver is   *)
(* parked.                                                             *)
Interrupt_Unbuffered ==
    /\ notified
    /\ IF stopSignals.closed
       THEN /\ panics' = panics \cup {"send on closed channel"}
            /\ UNCHANGED <<pc, op, stopSignals, lastWait>>
       ELSE IF stopSignals.recvq # <<>>
       THEN /\ pc' = Release(pc, {Head(stopSignals.recvq)}, "idle")
            /\ op' = Release(op, {Head(stopSignals.recvq)}, "none")
            /\ lastWait' = [got |-> "signal", parked |-> TRUE]
            /\ stopSignals' = [stopSignals EXCEPT !.recvq = Tail(@)]
            /\ UNCHANGED panics
       ELSE UNCHANGED <<pc, op, stopSignals, lastWait, panics>>
    /\ UNCHANGED <<notified, onceCloser, origin, hasLog, envVars, log, startRet,
                   sdVars, callVars, closedBy>>

(* The OS delivers SIGINT: os/signal does a non-blocking send on the   *)
(* registered channel.  The value goes to the longest-parked receiver, *)
(* whose Wait returns, else into the buffer, else it is dropped.       *)
Interrupt ==
    /\ notified
    /\ IF stopSignals.closed
       THEN /\ panics' = panics \cup {"send on closed channel"}
            /\ UNCHANGED <<pc, op, stopSignals, lastWait>>
       ELSE IF stopSignals.recvq # <<>>
       THEN /\ pc' = Release(pc, {Head(stopSignals.recvq)}, "idle")
            /\ op' = Release(op, {Head(stopSignals.recvq)}, "none")
            /\ lastWait' = [got |-> "signal", parked |-> TRUE]
            /\ stopSignals' = [stopSignals EXCEPT !.recvq = Tail(@)]
            /\ UNCHANGED panics
       ELSE IF stopSignals.qcount < StopSignalsCap
       THEN /\ stopSignals' = [stopSignals EXCEPT !.qcount = @ + 1]
            /\ UNCHANGED <<pc, op, lastWait, panics>>
       ELSE UNCHANGED <<pc, op, stopSignals, lastWait, panics>>
    /\ UNCHANGED <<notified, onceCloser, origin, hasLog, envVars, log, startRet,
                   sdVars, callVars, closedBy>>

(* The OS delivers SIGTERM.  signal.Notify was called for os.Interrupt *)
(* alone (lines 55 and 72), so os/signal hands nothing to stopSignals  *)
(* and the Go runtime applies the signal's default action: the process *)
(* exits.  Every goroutine ends where it is, the registration and the  *)
(* sockets of the engine go with the process.                          *)
Sigterm ==
    /\ \E t \in Tasks : pc[t] # "exited"
    /\ pc' = [t \in Tasks |-> "exited"]
    /\ op' = [t \in Tasks |-> "none"]
    /\ notified' = FALSE
    /\ origin' = [origin EXCEPT !.listener = IF @ = "open" THEN "closed" ELSE @,
                                !.busy = FALSE]
    /\ UNCHANGED <<stopSignals, onceCloser, hasLog, envVars, log, startRet, lastWait,
                   sdVars, callVars, closedBy, panics>>

(* ------------------------------------------------------------------ *)
(* Stop: s.onceCloser.Do(func() { signal.Stop(..); close(..) })        *)
(* ------------------------------------------------------------------ *)

(* Stop has returned in a task that runs method o: a plain Stop call   *)
(* is over, Start's failure path returns (line 94), Shutdown goes on   *)
(* to the engine.                                                      *)
AfterStop(o) == IF o = "Shutdown" THEN "sd_begin" ELSE "idle"

(* Stop without the once guard: done is never seen set. *)
OnceDone_Never == FALSE

(* The done flag of onceCloser, as Once.Do and Once.doSlow read it. *)
OnceDone == onceCloser.done

(* Task t enters Stop under method o: Once.Do loads done and returns   *)
(* at once if it is set, else goes to the slow path.                   *)
EnterStop(t, o) ==
    /\ pc' = [pc EXCEPT ![t] = IF OnceDone THEN AfterStop(o) ELSE "once_lock"]
    /\ op' = [op EXCEPT ![t] = IF OnceDone /\ o # "Shutdown" THEN "none" ELSE o]
    /\ startRet' = IF OnceDone /\ o = "Start" THEN "failed" ELSE startRet

StopCall(t) ==
    /\ CanCall(t)
    /\ Called(t)
    /\ EnterStop(t, "Stop")
    /\ UNCHANGED <<chanVars, onceCloser, origin, hasLog, envVars, log, lastWait, sdVars,
                   closedBy, panics>>

(* Once.doSlow without the second look at done under the mutex: the   *)
(* closure is run by every caller that reaches the slow path.          *)
OnceLock_NoRecheck(t) ==
    /\ pc[t] = "once_lock"
    /\ onceCloser.m = NoTask
    /\ onceCloser' = [onceCloser EXCEPT !.m = t]
    /\ notified' = FALSE
    /\ pc' = [pc EXCEPT ![t] = "f_close"]
    /\ UNCHANGED <<op, startRet, stopSignals, origin, hasLog, envVars, log, lastWait,
                   sdVars, callVars, closedBy, panics>>

(* The closure without signal.Stop: the channel stays registered. *)
OnceLock_NoSignalStop(t) ==
    /\ pc[t] = "once_lock"
    /\ onceCloser.m = NoTask
    /\ IF OnceDone
       THEN /\ pc' = [pc EXCEPT ![t] = AfterStop(op[t])]
            /\ op' = [op EXCEPT ![t] = IF @ = "Shutdown" THEN @ ELSE "none"]
            /\ startRet' = IF op[t] = "Start" THEN "failed" ELSE startRet
            /\ UNCHANGED onceCloser
       ELSE /\ onceCloser' = [onceCloser EXCEPT !.m = t]
            /\ pc' = [pc EXCEPT ![t] = "f_close"]
            /\ UNCHANGED <<op, startRet>>
    /\ UNCHANGED <<chanVars, origin, hasLog, envVars, log, lastWait, sdVars, callVars,
                   closedBy, panics>>

(* Once.doSlow: take the mutex and look at done again.  If it is set,  *)
(* unlock and return.  Otherwise run the closure, first statement:     *)
(* signal.Stop(s.stopSignals), after which no signal is delivered to   *)
(* the channel.                                                        *)
OnceLock(t) ==
    /\ pc[t] = "once_lock"
    /\ onceCloser.m = NoTask
    /\ IF OnceDone
       THEN /\ pc' = [pc EXCEPT ![t] = AfterStop(op[t])]
            /\ op' = [op EXCEPT ![t] = IF @ = "Shutdown" THEN @ ELSE "none"]
            /\ startRet' = IF op[t] = "Start" THEN "failed" ELSE startRet
            /\ UNCHANGED <<onceCloser, notified>>
       ELSE /\ onceCloser' = [onceCloser EXCEPT !.m = t]
            /\ notified' = FALSE
            /\ pc' = [pc EXCEPT ![t] = "f_close"]
            /\ UNCHANGED <<op, startRet>>
    /\ UNCHANGED <<stopSignals, origin, hasLog, envVars, log, lastWait, sdVars,
                   callVars, closedBy, panics>>

(* The closure with a call of origin.Close() added after the close of *)
(* the channel: Stop also stops the engine.                            *)
Close_AlsoEngine(t) ==
    /\ pc[t] = "f_close"
    /\ onceCloser.m = t
    /\ closedBy' = Append(closedBy, [op |-> op[t], woke |-> Len(stopSignals.recvq)])
    /\ stopSignals' = [stopSignals EXCEPT !.closed = TRUE, !.recvq = <<>>]
    /\ pc' = [Release(pc, Range(stopSignals.recvq), "idle")
                EXCEPT ![t] = AfterStop(op[t])]
    /\ op' = [Release(op, Range(stopSignals.recvq), "none")
                EXCEPT ![t] = IF @ = "Shutdown" THEN @ ELSE "none"]
    /\ lastWait' = IF stopSignals.recvq # <<>>
                   THEN [got |-> "closed", parked |-> TRUE]
                   ELSE lastWait
    /\ origin' = [origin EXCEPT !.inShutdown = TRUE,
                                !.listener = IF @ = "open" THEN "closed" ELSE @,
                                !.busy = FALSE]
    /\ onceCloser' = [done |-> TRUE, m |-> NoTask]
    /\ startRet' = IF op[t] = "Start" THEN "failed" ELSE startRet
    /\ UNCHANGED <<notified, hasLog, envVars, log, sdVars, callVars, panics>>

(* The closure without close(s.stopSignals): the once guard is set and *)
(* Stop returns with the channel left open.                            *)
Close_Omitted(t) ==
    /\ pc[t] = "f_close"
    /\ onceCloser.m = t
    /\ pc' = [pc EXCEPT ![t] = AfterStop(op[t])]
    /\ op' = [op EXCEPT ![t] = IF @ = "Shutdown" THEN @ ELSE "none"]
    /\ onceCloser' = [done |-> TRUE, m |-> NoTask]
    /\ startRet' = IF op[t] = "Start" THEN "failed" ELSE startRet
    /\ UNCHANGED <<chanVars, origin, hasLog, envVars, log, lastWait, sdVars,
                   callVars, closedBy, panics>>

(* The closure, second statement: close(s.stopSignals) panics on a     *)
(* closed channel, otherwise marks it closed and releases every parked *)
(* receiver.  Then the deferred calls of Once.doSlow: done.Store(1),   *)
(* m.Unlock(); Do returns and so does Stop.                            *)
Close(t) ==
    /\ pc[t] = "f_close"
    /\ onceCloser.m = t
    /\ closedBy' = Append(closedBy, [op |-> op[t], woke |-> Len(stopSignals.recvq)])
    /\ IF stopSignals.closed
       THEN /\ panics' = panics \cup {"close of closed channel"}
            /\ pc' = [pc EXCEPT ![t] = AfterStop(op[t])]
            /\ op' = [op EXCEPT ![t] = IF @ = "Shutdown" THEN @ ELSE "none"]
            /\ UNCHANGED <<stopSignals, lastWait>>
       ELSE /\ stopSignals' = [stopSignals EXCEPT !.closed = TRUE, !.recvq = <<>>]
            /\ pc' = [Release(pc, Range(stopSignals.recvq), "idle")
                        EXCEPT ![t] = AfterStop(op[t])]
            /\ op' = [Release(op, Range(stopSignals.recvq), "none")
                        EXCEPT ![t] = IF @ = "Shutdown" THEN @ ELSE "none"]
            /\ lastWait' = IF stopSignals.recvq # <<>>
                           THEN [got |-> "closed", parked |-> TRUE]
                           ELSE lastWait
            /\ UNCHANGED panics
    /\ onceCloser' = [done |-> TRUE, m |-> NoTask]
    /\ startRet' = IF op[t] = "Start" THEN "failed" ELSE startRet
    /\ UNCHANGED <<notified, origin, hasLog, envVars, log, sdVars, callVars>>

(* ------------------------------------------------------------------ *)
(* Start                                                               *)
(* ------------------------------------------------------------------ *)

(* Start is called, once, on its own goroutine: logs and goes on to    *)
(* origin.ListenAndServe().                                            *)
Start(t) ==
    /\ t = Starter
    /\ pc[t] = "idle"
    /\ op[t] = "none"
    /\ startRet = "none"
    /\ log' = logMessage(log, "start")
    /\ pc' = [pc EXCEPT ![t] = "listen"]
    /\ op' = [op EXCEPT ![t] = "Start"]
    /\ UNCHANGED <<chanVars, onceCloser, origin, hasLog, envVars, startRet, lastWait,
                   sdVars, callVars, closedBy, panics>>

(* ListenAndServe binds the address and enters the accept loop. *)
ListenOk(t) ==
    /\ pc[t] = "listen"
    /\ ~origin.inShutdown
    /\ origin' = [origin EXCEPT !.listener = "open"]
    /\ pc' = [pc EXCEPT ![t] = "serving"]
    /\ UNCHANGED <<op, chanVars, onceCloser, hasLog, envVars, log, startRet, lastWait,
                   sdVars, callVars, closedBy, panics>>

(* Start's failure path without the call of Stop: logs and returns. *)
ServeFail_NoStop(t) ==
    /\ pc[t] \in {"listen", "serving"}
    /\ ~origin.inShutdown
    /\ origin' = [origin EXCEPT !.listener = IF pc[t] = "serving" THEN "closed" ELSE @]
    /\ log' = logMessage(log, "error")
    /\ startRet' = "failed"
    /\ pc' = [pc EXCEPT ![t] = "idle"]
    /\ op' = [op EXCEPT ![t] = "none"]
    /\ UNCHANGED <<chanVars, onceCloser, hasLog, envVars, lastWait, sdVars, callVars,
                   closedBy, panics>>

(* ListenAndServe returns an error other than ErrServerClosed: the     *)
(* bind failed, or the listener failed while serving.  Start logs the  *)
(* error and calls Stop (lines 91-93).                                 *)
ServeFail(t) ==
    /\ pc[t] \in {"listen", "serving"}
    /\ ~origin.inShutdown
    /\ origin' = [origin EXCEPT !.listener = IF pc[t] = "serving" THEN "closed" ELSE @]
    /\ log' = logMessage(log, "error")
    /\ EnterStop(t, "Start")
    /\ UNCHANGED <<chanVars, onceCloser, hasLog, envVars, lastWait, sdVars, callVars,
                   closedBy, panics>>

(* Start without the test for ErrServerClosed: the closure is handled  *)
(* like any other error, logged and followed by Stop.                  *)
ServeClosed_AsFailure(t) ==
    /\ pc[t] \in {"listen", "serving"}
    /\ origin.inShutdown
    /\ log' = logMessage(log, "error")
    /\ EnterStop(t, "Start")
    /\ UNCHANGED <<chanVars, onceCloser, origin, hasLog, envVars, lastWait, sdVars,
                   callVars, closedBy, panics>>

(* ListenAndServe returns ErrServerClosed because the engine is        *)
(* shutting down; Start logs the closure and returns (line 97).        *)
ServeClosed(t) ==
    /\ pc[t] \in {"listen", "serving"}
    /\ origin.inShutdown
    /\ log' = logMessage(log, "closed")
    /\ startRet' = "closed"
    /\ pc' = [pc EXCEPT ![t] = "idle"]
    /\ op' = [op EXCEPT ![t] = "none"]
    /\ UNCHANGED <<chanVars, onceCloser, origin, hasLog, envVars, lastWait, sdVars,
                   callVars, closedBy, panics>>

(* The serving loop accepts a client request while none is in flight. *)
RequestArrive ==
    /\ origin.listener = "open"
    /\ \E t \in Tasks : pc[t] = "serving"
    /\ ~origin.busy
    /\ origin' = [origin EXCEPT !.busy = TRUE]
    /\ UNCHANGED <<pc, op, chanVars, onceCloser, hasLog, envVars, log, startRet,
                   lastWait, sdVars, callVars, closedBy, panics>>

(* The handler of the last request in flight finishes. *)
RequestDone ==
    /\ origin.busy
    /\ origin' = [origin EXCEPT !.busy = FALSE]
    /\ UNCHANGED <<pc, op, chanVars, onceCloser, hasLog, envVars, log, startRet,
                   lastWait, sdVars, callVars, closedBy, panics>>

(* ------------------------------------------------------------------ *)
(* Shutdown                                                            *)
(* ------------------------------------------------------------------ *)

(* Shutdown without the call of Stop: logs and goes to the engine. *)
Shutdown_NoStop(t) ==
    /\ CanCall(t)
    /\ Called(t)
    /\ log' = logMessage(log, "shutdown")
    /\ pc' = [pc EXCEPT ![t] = "sd_begin"]
    /\ op' = [op EXCEPT ![t] = "Shutdown"]
    /\ UNCHANGED <<chanVars, onceCloser, origin, hasLog, envVars, startRet, lastWait,
                   sdVars, closedBy, panics>>

(* Shutdown is called: logs, then calls Stop (lines 116-117). *)
Shutdown(t) ==
    /\ CanCall(t)
    /\ Called(t)
    /\ log' = logMessage(log, "shutdown")
    /\ EnterStop(t, "Shutdown")
    /\ UNCHANGED <<chanVars, onceCloser, origin, hasLog, envVars, lastWait, sdVars,
                   closedBy, panics>>

(* context.WithTimeout(.., gracefulTimeout) and the entry of           *)
(* origin.Shutdown(ctx): the engine is marked shutting down and its    *)
(* listener is closed (lines 119-122).                                 *)
ShutdownBegin(t) ==
    /\ pc[t] = "sd_begin"
    /\ origin' = [origin EXCEPT !.inShutdown = TRUE,
                                !.listener = IF @ = "open" THEN "closed" ELSE @]
    /\ elapsed' = [elapsed EXCEPT ![t] = 0]
    /\ pc' = [pc EXCEPT ![t] = "sd_poll"]
    /\ UNCHANGED <<op, chanVars, onceCloser, hasLog, envVars, log, startRet, lastWait,
                   lastSd, sdCalls, callVars, closedBy, panics>>

(* A context without a deadline (context.Background()): no clock value *)
(* of the model reaches it.                                            *)
Deadline_None == gracefulTimeout + 2 * ClockStep

(* The deadline of the context created at line 119, in seconds. *)
Deadline == gracefulTimeout

(* The result test inverted (err == nil instead of err != nil). *)
OutcomeLine_Inverted(err) == IF err = "nil" THEN "failed" ELSE "ok"

(* The line Shutdown logs for the result of origin.Shutdown            *)
(* (lines 122-126).                                                    *)
OutcomeLine(err) == IF err # "nil" THEN "failed" ELSE "ok"

(* Shutdown's report without the else branch: after the failure line  *)
(* the success line is written as well.                                *)
ShutdownReturns_NoElse(t, err) ==
    /\ lastSd' = err
    /\ sdCalls' = sdCalls + 1
    /\ elapsed' = [elapsed EXCEPT ![t] = 0]
    /\ log' = IF err # "nil"
              THEN [l \in Lines |->
                      IF hasLog /\ l \in {"failed", "ok"} THEN log[l] + 1 ELSE log[l]]
              ELSE logMessage(log, "ok")
    /\ pc' = [pc EXCEPT ![t] = "idle"]
    /\ op' = [op EXCEPT ![t] = "none"]

(* Shutdown returns in task t with the engine's result err. *)
ShutdownReturns(t, err) ==
    /\ lastSd' = err
    /\ sdCalls' = sdCalls + 1
    /\ elapsed' = [elapsed EXCEPT ![t] = 0]
    /\ log' = logMessage(log, OutcomeLine(err))
    /\ pc' = [pc EXCEPT ![t] = "idle"]
    /\ op' = [op EXCEPT ![t] = "none"]

(* origin.Shutdown finds no request in flight and returns nil. *)
ShutdownOk(t) ==
    /\ pc[t] = "sd_poll"
    /\ ~origin.busy
    /\ ShutdownReturns(t, "nil")
    /\ UNCHANGED <<chanVars, onceCloser, origin, hasLog, envVars, startRet, lastWait,
                   callVars, closedBy, panics>>

(* The context expires with a request still in flight: origin.Shutdown *)
(* returns ctx.Err().                                                  *)
ShutdownTimeout(t) ==
    /\ pc[t] = "sd_poll"
    /\ origin.busy
    /\ elapsed[t] >= Deadline
    /\ ShutdownReturns(t, "deadline")
    /\ UNCHANGED <<chanVars, onceCloser, origin, hasLog, envVars, startRet, lastWait,
                   callVars, closedBy, panics>>

(* Time passes, ClockStep seconds at a time, for every Shutdown that   *)
(* waits for a request in flight; time does not pass an expired        *)
(* context before its Shutdown has acted.                              *)
Tick ==
    /\ \E t \in Tasks : pc[t] = "sd_poll"
    /\ origin.busy
    /\ \A t \in Tasks : pc[t] = "sd_poll" => elapsed[t] < gracefulTimeout
    /\ elapsed' = [t \in Tasks |->
                     IF pc[t] = "sd_poll" THEN elapsed[t] + ClockStep ELSE elapsed[t]]
    /\ UNCHANGED <<pc, op, chanVars, onceCloser, origin, hasLog, envVars, log, startRet,
                   lastWait, lastSd, sdCalls, callVars, closedBy, panics>>

(* ------------------------------------------------------------------ *)
(* Specifications                                                      *)
(* ------------------------------------------------------------------ *)

Next ==
    \/ \E t \in Tasks : Wait(t)
    \/ \E t \in Tasks : StopCall(t)
    \/ \E t \in Tasks : OnceLock(t)
    \/ \E t \in Tasks : Close(t)
    \/ \E t \in Tasks : Start(t)
    \/ \E t \in Tasks : ListenOk(t)
    \/ \E t \in Tasks : ServeFail(t)
    \/ \E t \in Tasks : ServeClosed(t)
    \/ \E t \in Tasks : Shutdown(t)
    \/ \E t \in Tasks : ShutdownBegin(t)
    \/ \E t \in Tasks : ShutdownOk(t)
    \/ \E t \in Tasks : ShutdownTimeout(t)
    \/ Interrupt
    \/ RequestArrive
    \/ RequestDone
    \/ Tick

Spec == Init /\ [][Next]_vars

(* The steps a goroutine takes by itself once it is inside a call: the *)
(* Go scheduler runs every runnable goroutine, a call of               *)
(* ListenAndServe either binds or fails, and the clock advances.  The  *)
(* environment (new calls, interrupts, requests arriving or finishing, *)
(* the listener failing while serving) is under no obligation.         *)
Progress(t) ==
    \/ OnceLock(t)
    \/ Close(t)
    \/ (pc[t] = "listen" /\ (ListenOk(t) \/ ServeFail(t)))
    \/ ServeClosed(t)
    \/ ShutdownBegin(t)
    \/ ShutdownOk(t)
    \/ ShutdownTimeout(t)

FairSpec == Spec /\ (\A t \in Tasks : WF_vars(Progress(t))) /\ WF_vars(Tick)

(* ------------------------------------------------------------------ *)
(* Calls into package env                                              *)
(* ------------------------------------------------------------------ *)

(* The environment is any assignment of values to the names. *)
EnvInit ==
    /\ ServerInit
    /\ environ \in [Names -> Entries]
    /\ envRet = NoCall

CallMust(variable) ==
    /\ envRet' = [fn |-> "Must", variable |-> variable, ret |-> Must(variable)]
    /\ UNCHANGED <<serverVars, environ>>

CallMustBool(variable) ==
    /\ envRet' = [fn |-> "MustBool", variable |-> variable, ret |-> MustBool(variable)]
    /\ UNCHANGED <<serverVars, environ>>

CallGet(variable, defaultValue) ==
    /\ envRet' = [fn |-> "Get", variable |-> variable, defaultValue |-> defaultValue,
                  ret |-> Get(variable, defaultValue)]
    /\ UNCHANGED <<serverVars, environ>>

CallBool(variable, defaultValue) ==
    /\ envRet' = [fn |-> "Bool", variable |-> variable, defaultValue |-> defaultValue,
                  ret |-> Bool(variable, defaultValue)]
    /\ UNCHANGED <<serverVars, environ>>

EnvNext ==
    \/ \E v \in CallNames : CallMust(v)
    \/ \E v \in CallNames : CallMustBool(v)
    \/ \E v \in CallNames, d \in Defaults : CallGet(v, d)
    \/ \E v \in CallNames, d \in BOOLEAN : CallBool(v, d)

EnvSpec == EnvInit /\ [][EnvNext]_vars

(* The Server in a process that also receives SIGTERM. *)
NextOS == Next \/ Sigterm

OSSpec == Init /\ [][NextOS]_vars

TypeOK ==
    /\ pc \in [Tasks -> {"idle", "listen", "serving", "parked", "once_lock",
                         "f_close", "sd_begin", "sd_poll", "exited"}]
    /\ op \in [Tasks -> {"none", "Start", "Wait", "Stop", "Shutdown"}]
    /\ stopSignals.closed \in BOOLEAN
    /\ stopSignals.qcount \in 0..StopSignalsCap
    /\ Range(stopSignals.recvq) \subseteq Users
    /\ onceCloser.m \in Tasks \cup {NoTask}
    /\ origin.busy \in BOOLEAN
    /\ \A t \in Tasks : elapsed[t] \in 0..(gracefulTimeout + ClockStep - 1)
(* ------------------------------------------------------------------ *)
(* Properties                                                          *)
(* ------------------------------------------------------------------ *)

InStop(t) == pc[t] \in {"once_lock", "f_close"}

NoneParked == \A u \in Tasks : pc[u] # "parked"

(* C1: however many Stop calls run concurrently, from user tasks,      *)
(* from Start's failure path and from Shutdown, close(s.stopSignals)   *)
(* is executed at most once, no call panics with a double close, and   *)
(* every Stop call returns: again and again no task is inside Stop.    *)
C1_StopClosesAtMostOnce ==
    /\ [](Len(closedBy) <= 1 /\ "close of closed channel" \notin panics)
    /\ []<>(\A t \in Tasks : ~InStop(t))

(* Stop calls from all three kinds of caller were in the slow path     *)
(* together: the user's Stop has done the close and returned, Start's  *)
(* failure path and a Shutdown are still waiting for the mutex.        *)
C1_Witness ==
    /\ Len(closedBy) = 1 /\ closedBy[1].op = "Stop"
    /\ op[Starter] = "Start" /\ pc[Starter] = "once_lock"
    /\ \E v \in Users : op[v] = "Shutdown" /\ pc[v] = "once_lock"

(* C2: when ListenAndServe fails with an error other than              *)
(* ErrServerClosed, Start returns and no task stays blocked in Wait,   *)
(* with no interrupt and no Stop or Shutdown call from outside.        *)
C2_StartFailureReleasesWait ==
    /\ [](startRet = "failed" => stopSignals.closed /\ NoneParked)
    /\ (op[Starter] = "Start" /\ InStop(Starter))
         ~> (startRet = "failed" /\ NoneParked)

(* Start has failed and returned; every user task made one call, a     *)
(* Wait that parked, and the close of Start's own Stop released them   *)
(* all.                                                                *)
C2_Witness ==
    /\ startRet = "failed"
    /\ closedBy = <<[op |-> "Start", woke |-> NTasks]>>
    /\ ncalls = NTasks
    /\ lastWait = [got |-> "closed", parked |-> TRUE]
    /\ \A u \in Users : pc[u] = "idle"

(* C3, as claimed: once an interrupt is delivered or the channel is    *)
(* closed, no Wait caller is left blocked.                             *)
C3_Original ==
    [][(Interrupt \/ \E t \in Tasks : Close(t)) => NoneParked']_vars

C5_WaitOnClosedDoesNotBlock ==
    [][\A t \in Tasks :
         (stopSignals.closed /\ Wait(t))
         => (pc'[t] = "idle" /\ lastWait'.got # "none" /\ ~lastWait'.parked)]_vars

(* Every call of the run was a Wait, the last of them was made on the  *)
(* closed channel (closed by Start's failure path) and returned        *)
(* without parking.                                                    *)
C5_Witness ==
    /\ stopSignals.closed
    /\ closedBy = <<[op |-> "Start", woke |-> 0]>>
    /\ ncalls = MaxCalls
    /\ lastWait = [got |-> "closed", parked |-> FALSE]
    /\ \A u \in Users : pc[u] = "idle"

(* C6: Shutdown closes the stop channel before it asks the engine to   *)
(* drain: the engine is never shutting down with the channel open, and *)
(* once a Shutdown call is past its Stop no task is blocked in Wait.   *)
C6_ShutdownStopsFirst ==
    /\ origin.inShutdown => stopSignals.closed
    /\ ( \/ \E t \in Tasks : op[t] = "Shutdown" /\ pc[t] \in {"sd_begin", "sd_poll"}
         \/ sdCalls > 0 )
       => NoneParked

(* A Shutdown is past its Stop, which did the close itself (no         *)
(* interrupt, Stop call or Start failure came first) and released a    *)
(* parked Wait.                                                        *)
C6_Witness ==
    /\ closedBy = <<[op |-> "Shutdown", woke |-> 1]>>
    /\ startRet = "none"
    /\ stopSignals.qcount = 0
    /\ lastWait = [got |-> "closed", parked |-> TRUE]
    /\ \E t \in Users : op[t] = "Shutdown" /\ pc[t] = "sd_begin"

(* C7: in the standard flow the Stop of a concurrent task unblocks     *)
(* Wait, and a Shutdown whose engine call returns with no request in   *)
(* flight gets nil and logs the success line.                          *)
C7_StandardFlow ==
    /\ [][\A t \in Tasks :
            (pc[t] = "sd_poll" /\ pc'[t] = "idle" /\ ~origin.busy)
            => (lastSd' = "nil" /\ log' = logMessage(log, "ok"))]_vars
    /\ (\E t \in Tasks : op[t] = "Stop" /\ InStop(t))
         ~> (stopSignals.closed /\ NoneParked)

(* Start is serving; the three calls of the run were a Stop, which did *)
(* the close and released one parked Wait, and a Shutdown, which       *)
(* returned nil and logged the success line.                           *)
C7_Witness ==
    /\ pc[Starter] = "serving"
    /\ closedBy = <<[op |-> "Stop", woke |-> 1]>>
    /\ lastWait = [got |-> "closed", parked |-> TRUE]
    /\ ncalls = 3 /\ sdCalls = 1
    /\ hasLog /\ log["ok"] = 1 /\ log["failed"] = 0
    /\ ~origin.busy
    /\ lastSd = "nil"

(* C8: a Shutdown whose engine call returns with a request still in    *)
(* flight returns at the deadline with the context's error and logs    *)
(* the failure line; no Shutdown waits past the deadline, and every    *)
(* Shutdown that reaches the engine returns: again and again no task   *)
(* is inside the engine's Shutdown.                                    *)
C8_ShutdownBounded ==
    /\ [][\A t \in Tasks :
            (pc[t] = "sd_poll" /\ pc'[t] = "idle" /\ origin.busy)
            => /\ elapsed[t] >= gracefulTimeout
               /\ lastSd' = "deadline"
               /\ log' = logMessage(log, "failed")]_vars
    /\ [](\A t \in Tasks : elapsed[t] < gracefulTimeout + ClockStep)
    /\ []<>(\A t \in Tasks : pc[t] # "sd_poll")

(* A Shutdown has returned with the deadline error, the failure line   *)
(* is in the log and the request is still in flight.                   *)
C8_Witness ==
    /\ origin.busy
    /\ hasLog /\ log["failed"] = 1 /\ log["ok"] = 0
    /\ lastSd = "deadline"
    /\ sdCalls = 1
    /\ \A t \in Tasks : op[t] # "Shutdown"

(* C9: after one Shutdown has returned, a further Shutdown raises no   *)
(* panic, executes no close, leaves the stop channel closed and        *)
(* unregistered and the engine shut down, and returns.                 *)
C9_ShutdownTwice ==
    /\ [][sdCalls >= 1 =>
            /\ stopSignals'.closed /\ ~notified'
            /\ origin'.inShutdown /\ origin'.listener # "open"
            /\ closedBy' = closedBy
            /\ panics' = panics]_vars
    /\ [](sdCalls >= 1 => stopSignals.closed /\ origin.inShutdown /\ panics = {})
    /\ (sdCalls >= 1 /\ \E t \in Tasks : op[t] = "Shutdown")
         ~> (\A t \in Tasks : op[t] # "Shutdown")

(* The first user task alone has called Shutdown twice, one call after *)
(* the other, and both have returned.                                  *)
C9_Witness ==
    /\ sdCalls = 2
    /\ ncalls = 2
    /\ fresh = 2
    /\ pc[1] = "idle"
    /\ stopSignals.closed /\ origin.inShutdown

(* C10: once closed the stop channel stays closed; it is never closed  *)
(* a second time and no interrupt is sent on it after the close,       *)
(* because the registration is removed before the close is executed.   *)
C10_ClosedStaysClosed ==
    /\ [][stopSignals.closed => stopSignals'.closed]_vars
    /\ [](stopSignals.closed => ~notified)
    /\ [](Len(closedBy) <= 1)
    /\ [](panics = {})

(* The channel is closed and unregistered with an interrupt value      *)
(* still buffered in it, and a later Stop caller is on the slow path   *)
(* of the once guard.                                                  *)
C10_Witness ==
    /\ stopSignals.closed /\ ~notified
    /\ stopSignals.qcount = 1
    /\ Len(closedBy) = 1
    /\ \E t \in Tasks : pc[t] = "once_lock"

(* C11, as claimed: the delivery of a SIGINT or of a SIGTERM releases  *)
(* a task blocked in Wait: its Wait call returns.                      *)
C11_Original ==
    [][((Interrupt \/ Sigterm) /\ ~NoneParked)
       => \E t \in Tasks : pc[t] = "parked" /\ pc'[t] = "idle"]_vars

(* The name a call looks up: the argument without one leading "$". *)
LookedUp(variable) ==
    IF variable # <<>> /\ Head(variable) = "$" THEN Tail(variable) ELSE variable

IsPresent(name) == name \in DOMAIN environ /\ environ[name].ok

(* C12: Must looks up the name with one leading "$" removed; it panics *)
(* exactly when that variable is not present, and otherwise returns    *)
(* the variable's value, the empty string for an empty value.          *)
C12_MustValueOrPanic ==
    envRet.fn = "Must" =>
        LET name == LookedUp(envRet.variable)
        IN  /\ envRet.ret.panicked <=> ~IsPresent(name)
            /\ IsPresent(name) => envRet.ret.value = environ[name].value

(* Must("$$V") returned the empty value of the variable "$V", which is *)
(* present, while "V" is not: one "$" was removed and the empty value  *)
(* raised no panic.                                                    *)
C12_Witness ==
    /\ envRet.fn = "Must"
    /\ envRet.variable = <<"$", "$", "V">>
    /\ environ[<<"$", "V">>] = [value |-> "", ok |-> TRUE]
    /\ ~environ[<<"V">>].ok
    /\ envRet.ret = [panicked |-> FALSE, value |-> ""]

(* C13: Bool never panics and returns true for the value "true", false *)
(* for the value "false" and defaultValue for a variable that is       *)
(* absent, empty or holds any other string, the name being looked up   *)
(* with one leading "$" removed.                                       *)
C13_BoolOrDefault ==
    envRet.fn = "Bool" =>
        LET name == LookedUp(envRet.variable)
            value == IF IsPresent(name) THEN environ[name].value ELSE ""
        IN  /\ ~envRet.ret.panicked
            /\ value = "true" => envRet.ret.value = TRUE
            /\ value = "false" => envRet.ret.value = FALSE
            /\ value \notin {"true", "false"} => envRet.ret.value = envRet.defaultValue

(* Bool("$V", false) returned the default, false, for the value "True" *)
(* of the variable "V".                                                *)
C13_Witness ==
    /\ envRet.fn = "Bool"
    /\ envRet.variable = <<"$", "V">>
    /\ envRet.defaultValue = FALSE
    /\ environ[<<"V">>] = [value |-> "True", ok |-> TRUE]
    /\ envRet.ret = [panicked |-> FALSE, value |-> FALSE]

(* C14, as claimed: in every state reached after a Shutdown call has   *)
(* returned, the engine is closed (shut down, no listener open) and no *)
(* request is still being served.                                      *)
C14_Original ==
    sdCalls > 0 =>
        /\ origin.inShutdown
        /\ origin.listener # "open"
        /\ ~origin.busy

(* C15: every Shutdown call that returns writes exactly one outcome    *)
(* line to the log sink (nothing without a sink): the failure line if  *)
(* the engine gave up at the deadline with a request still in flight,  *)
(* the success line otherwise; it returns to its caller without a      *)
(* panic and the result of the engine stays inside the call.           *)
C15_ShutdownReportsOneOutcome ==
    /\ [](log["ok"] + log["failed"] = IF hasLog THEN sdCalls ELSE 0)
    /\ [][\A t \in Tasks :
            (op[t] = "Shutdown" /\ op'[t] # "Shutdown")
            => /\ sdCalls' = sdCalls + 1
               /\ pc'[t] = "idle"
               /\ panics' = {}
               /\ IF origin.busy
                  THEN /\ elapsed[t] >= gracefulTimeout
                       /\ log' = logMessage(log, "failed")
                  ELSE log' = logMessage(log, "ok")]_vars

(* Two Shutdown calls have returned with a sink attached, the first at *)
(* the deadline and the second after the request had finished: the     *)
(* log holds one failure line and one success line.                    *)
C15_Witness ==
    /\ hasLog
    /\ sdCalls = 2
    /\ log["failed"] = 1 /\ log["ok"] = 1
    /\ log["shutdown"] = 2
    /\ lastSd = "nil"
    /\ panics = {}

StartBlocked == op[Starter] = "Start" /\ pc[Starter] \in {"listen", "serving"}

C17_StartReturnedImpliesClosed ==
    startRet # "none" => stopSignals.closed

(* Start has returned by the closure path in a run whose only call was *)
(* one Shutdown: the channel was closed by the Stop inside it.         *)
C17_Witness ==
    /\ startRet = "closed"
    /\ ncalls = 1 /\ sdCalls = 1
    /\ Len(closedBy) = 1 /\ closedBy[1].op = "Shutdown"
    /\ stopSignals.closed
    /\ stopSignals.qcount = 0

(* A step of a Stop call made by a user task. *)
StopStep(t) == StopCall(t) \/ (op[t] = "Stop" /\ (OnceLock(t) \/ Close(t)))

(* C18: the steps of Stop, whoever calls it, and the delivery of an    *)
(* interrupt leave the engine as it is; a user's Stop and an interrupt *)
(* also leave Start where it is and the log untouched.  So a serving   *)
(* engine keeps its listener open until it is told to shut down, and   *)
(* Start returns by the closure path only after that.                  *)
C18_StopLeavesEngine ==
    /\ [][(Interrupt \/ \E t \in Tasks : StopCall(t) \/ OnceLock(t) \/ Close(t))
          => origin' = origin]_vars
    /\ [][(Interrupt \/ \E t \in Users : StopStep(t))
          => /\ pc'[Starter] = pc[Starter]
             /\ startRet' = startRet
             /\ log' = log
             /\ <<lastSd, sdCalls, elapsed>>' = <<lastSd, sdCalls, elapsed>>]_vars
    /\ []((pc[Starter] = "serving" /\ ~origin.inShutdown) => origin.listener = "open")
    /\ [](startRet = "closed" => origin.inShutdown)

(* A user's Stop has closed the channel and returned; nobody has       *)
(* called Shutdown, Start is still serving, the listener is open and a *)
(* request is in flight.                                               *)
C18_Witness ==
    /\ stopSignals.closed /\ ~notified
    /\ Len(closedBy) = 1 /\ closedBy[1].op = "Stop"
    /\ \A u \in Users : pc[u] = "idle"
    /\ sdCalls = 0
    /\ pc[Starter] = "serving"
    /\ origin = [inShutdown |-> FALSE, listener |-> "open", busy |-> TRUE]

(* A wake-up is waiting in the channel: a buffered interrupt or the    *)
(* close.                                                              *)
Pending == stopSignals.qcount > 0 \/ stopSignals.closed

(* C19: from construction on, as long as the channel is registered,   *)
(* an interrupt that arrives while nobody is in Wait can be delivered  *)
(* and is then kept in the channel; such an interrupt, and a close by  *)
(* Stop, leave a wake-up in the channel, before Start as well as       *)
(* after; the wake-up stays there until a Wait call takes it, and a    *)
(* Wait call that finds it returns without parking.                    *)
C19_NoLostWakeup ==
    /\ []((notified /\ NoneParked /\ ~Pending) => ENABLED (Interrupt /\ Pending'))
    /\ [][((Interrupt /\ NoneParked) \/ \E t \in Tasks : Close(t)) => Pending']_vars
    /\ [][(Pending /\ ~Pending') => \E t \in Users : Wait(t)]_vars
    /\ [][\A t \in Users :
            (Pending /\ Wait(t))
            => /\ pc'[t] = "idle"
               /\ ~lastWait'.parked
               /\ lastWait'.got \in {"signal", "closed"}]_vars

(* The first call of the run was a Wait, made before Start was called  *)
(* and after an interrupt: it took the buffered value and returned     *)
(* without parking, the channel still open.                            *)
C19_Witness ==
    /\ ncalls = 1
    /\ lastWait = [got |-> "signal", parked |-> FALSE]
    /\ op[Starter] = "none" /\ startRet = "none"
    /\ ~stopSignals.closed /\ notified
    /\ stopSignals.qcount = 0
====
